---- MODULE Spec2Model ----
(***************************************************************************)
(* Model of app.py (Calculadora YLW): the storage-box calculator.          *)
(*                                                                         *)
(* Units.  Python floats with two decimals are kept as integers:           *)
(*   heights ("altura", "Altura")            centimetres  (1.80 m = 180)   *)
(*   unit volumes and capacities ("m3")      1/100 m3     (2.50 m3 = 250)  *)
(*   totals after the slack ("vol")          1/10000 m3                    *)
(*   slack ("folga")                         percent      (0.15 = 15)      *)
(* Float floor division (altura_box // alt) is NOT integer division of the *)
(* decimals: 2.0 // 0.4 is 4.0 in Python.  FloorDivFloat reproduces the    *)
(* IEEE-754 result from the rounding error of each decimal literal.        *)
(* Sums and products of volumes are taken exactly (fixed point).           *)
(***************************************************************************)
EXTENDS Integers, Sequences, FiniteSets, TLC

\* ------------------------------------------------------------------ bounds
\* Largest quantity typed into a form field.
MaxQtd == 3
\* Largest number of form fields that carry a value in one request.
MaxSel == 2
\* Largest number of rows of Boxes.xlsx that survive the loading filters.
MaxBoxes == 2

\* Python values whose type the code tests (None, isinstance) carry the type.
None == [tipo |-> "NoneType"]

Float(x) == [tipo |-> "float", v |-> x]

List(x) == [tipo |-> "list", v |-> x]

Str(x) == [tipo |-> "str", v |-> x]

Series(x) == [tipo |-> "Series", v |-> x]

isinstance(x, t) == x.tipo = t

\* ----------------------------------------------------------------- strings
\* Characters in code-point order (only the relative order is used).
AsciiOrder == "\t -/0123456789ABCDEFGHIJKLMNOPQRSTUVWXYZ_abcdefghijklmnopqrstuvwxyz"

UpperCase == "ABCDEFGHIJKLMNOPQRSTUVWXYZ"

LowerCase == "abcdefghijklmnopqrstuvwxyz"

DigitChars == "0123456789"

Whitespace == {" ", "\t"}

CharAt(s, i) == SubSeq(s, i, i)

Chars(s) == {CharAt(s, i) : i \in 1..Len(s)}

IndexIn(s, c) == CHOOSE i \in 1..Len(s) : CharAt(s, i) = c

\* Code-point rank of a character; characters outside AsciiOrder rank last.
CharCode(c) == IF c \in Chars(AsciiOrder) THEN IndexIn(AsciiOrder, c) ELSE Len(AsciiOrder) + 1

\* str.__lt__: lexicographic comparison by code point.
RECURSIVE StrLess(_, _)
StrLess(a, b) ==
    IF Len(b) = 0 THEN FALSE
    ELSE IF Len(a) = 0 THEN TRUE
    ELSE IF Head(a) = Head(b) THEN StrLess(Tail(a), Tail(b))
    ELSE CharCode(Head(a)) < CharCode(Head(b))

\* str.lower() on one character.
LowerChar(c) == IF c \in Chars(UpperCase) THEN CharAt(LowerCase, IndexIn(UpperCase, c)) ELSE c

RECURSIVE lower(_)
lower(s) == IF Len(s) = 0 THEN "" ELSE LowerChar(Head(s)) \o lower(Tail(s))

RECURSIVE lstrip(_, _)
lstrip(s, cs) == IF Len(s) > 0 /\ Head(s) \in cs THEN lstrip(Tail(s), cs) ELSE s

RECURSIVE rstrip(_, _)
rstrip(s, cs) ==
    IF Len(s) > 0 /\ CharAt(s, Len(s)) \in cs THEN rstrip(SubSeq(s, 1, Len(s) - 1), cs) ELSE s

\* str.strip(chars); str.strip() is strip(s, Whitespace).
strip(s, cs) == rstrip(lstrip(s, cs), cs)

\* str.replace(old, new) for a one- or two-character `old`: leftmost,
\* non-overlapping occurrences, one pass.
RECURSIVE replace(_, _, _)
replace(s, old, new) ==
    IF Len(s) < Len(old) THEN s
    ELSE IF SubSeq(s, 1, Len(old)) = old
         THEN new \o replace(SubSeq(s, Len(old) + 1, Len(s)), old, new)
         ELSE Head(s) \o replace(Tail(s), old, new)

\* re.sub(r"[^...]", "", s): drop every character outside `keep`.
RECURSIVE KeepOnly(_, _)
KeepOnly(s, keep) ==
    IF Len(s) = 0 THEN ""
    ELSE (IF Head(s) \in keep THEN Head(s) ELSE "") \o KeepOnly(Tail(s), keep)

\* re.sub(r"\s+", "_", s): every maximal run of whitespace becomes one "_".
RECURSIVE CollapseSpaces(_)
CollapseSpaces(s) ==
    IF Len(s) = 0 THEN ""
    ELSE IF Head(s) \in Whitespace THEN "_" \o CollapseSpaces(lstrip(s, Whitespace))
    ELSE Head(s) \o CollapseSpaces(Tail(s))

\* unicodedata NFD + drop of combining marks.  Every string the program
\* slugifies is a catalog key, all ASCII, which NFD leaves as it is.
remove_acentos(s) == KeepOnly(s, Chars(AsciiOrder))

SlugChars == Chars(LowerCase) \cup Chars(DigitChars) \cup Whitespace \cup {"-", "_", "/"}

slugify(s) ==
    LET s1 == remove_acentos(lower(strip(s, Whitespace)))
        s2 == KeepOnly(s1, SlugChars)
        s3 == replace(replace(replace(s2, "/", " "), "-", " "), "  ", " ")
    IN  strip(CollapseSpaces(s3), {"_"})

\* ----------------------------------------------------------------- catalog
\* dict.get(key, default) on a record.
Get(meta, key, default) == IF key \in DOMAIN meta THEN meta[key] ELSE default

\* The catalog dict, in insertion order (a Python dict iterates in it).
catalogo == <<
    [nome |-> "sofa",                  meta |-> [m3 |-> 250, empilhavel |-> FALSE, altura |-> 100]],
    [nome |-> "geladeira",             meta |-> [m3 |-> 120, empilhavel |-> FALSE, altura |-> 180]],
    [nome |-> "mesa",                  meta |-> [m3 |-> 180, empilhavel |-> FALSE, altura |-> 75]],
    [nome |-> "cadeira de jantar",     meta |-> [m3 |-> 50,  empilhavel |-> TRUE,  max_emp |-> 4, altura |-> 100]],
    [nome |-> "caixa pequena",         meta |-> [m3 |-> 10,  empilhavel |-> TRUE,  max_emp |-> 6, altura |-> 40]],
    [nome |-> "caixa media",           meta |-> [m3 |-> 30,  empilhavel |-> TRUE,  max_emp |-> 5, altura |-> 50]],
    [nome |-> "caixa grande",          meta |-> [m3 |-> 50,  empilhavel |-> TRUE,  max_emp |-> 4, altura |-> 60]],
    [nome |-> "fogao",                 meta |-> [m3 |-> 30,  empilhavel |-> FALSE, altura |-> 90]],
    [nome |-> "cama box",              meta |-> [m3 |-> 160, empilhavel |-> FALSE, altura |-> 60]],
    [nome |-> "colchao de casal",      meta |-> [m3 |-> 80,  empilhavel |-> TRUE,  max_emp |-> 3, altura |-> 25]],
    [nome |-> "colchao de solteiro",   meta |-> [m3 |-> 50,  empilhavel |-> TRUE,  max_emp |-> 3, altura |-> 25]],
    [nome |-> "maquina de lavar",      meta |-> [m3 |-> 30,  empilhavel |-> FALSE, altura |-> 100]],
    [nome |-> "mesa de jantar",        meta |-> [m3 |-> 84,  empilhavel |-> FALSE, altura |-> 75]],
    [nome |-> "rack",                  meta |-> [m3 |-> 22,  empilhavel |-> FALSE, altura |-> 55]],
    [nome |-> "sofa 2 lugares",        meta |-> [m3 |-> 118, empilhavel |-> FALSE, altura |-> 90]],
    [nome |-> "sofa 3 lugares",        meta |-> [m3 |-> 234, empilhavel |-> FALSE, altura |-> 100]],
    [nome |-> "tv",                    meta |-> [m3 |-> 41,  empilhavel |-> FALSE, altura |-> 70]],
    [nome |-> "escrivaninha",          meta |-> [m3 |-> 41,  empilhavel |-> FALSE, altura |-> 75]],
    [nome |-> "cadeira de escritorio", meta |-> [m3 |-> 30,  empilhavel |-> TRUE,  max_emp |-> 3, altura |-> 100]],
    [nome |-> "poltrona",              meta |-> [m3 |-> 53,  empilhavel |-> FALSE, altura |-> 100]] >>

\* catalogo[nome]
CatalogMeta(nome) == catalogo[CHOOSE i \in 1..Len(catalogo) : catalogo[i].nome = nome].meta

\* Position of a catalog key in the dict's iteration order.
CatalogPos(nome) == CHOOSE i \in 1..Len(catalogo) : catalogo[i].nome = nome

\* One element of itens_ui before sorting.
UiItem(e) ==
    [nome       |-> e.nome,
     slug       |-> slugify(e.nome),
     m3         |-> e.meta.m3,
     empilhavel |-> Get(e.meta, "empilhavel", FALSE),
     max_emp    |-> Get(e.meta, "max_emp", 1),
     altura     |-> Get(e.meta, "altura", 50)]

\* sorted(..., key=nome): stable insertion by ascending nome.
RECURSIVE InsertByNome(_, _)
InsertByNome(s, x) ==
    IF Len(s) = 0 THEN <<x>>
    ELSE IF StrLess(x.nome, Head(s).nome) THEN <<x>> \o s
    ELSE <<Head(s)>> \o InsertByNome(Tail(s), x)

RECURSIVE SortedByNome(_)
SortedByNome(s) ==
    IF Len(s) = 0 THEN <<>>
    ELSE InsertByNome(SortedByNome(SubSeq(s, 1, Len(s) - 1)), s[Len(s)])

\* The list the form is built from: one entry per catalog key, sorted by name.
itens_ui == SortedByNome([i \in 1..Len(catalogo) |-> UiItem(catalogo[i])])

\* slug_to_nome = {slugify(k): k for k in catalogo.keys()}: as a dict
\* comprehension, a later key overwrites an earlier one with the same slug.
slug_to_nome == [i \in 1..Len(catalogo) |-> [slug |-> slugify(catalogo[i].nome), nome |-> catalogo[i].nome]]

\* slug_to_nome.get(slug)
SlugToNomeGet(slug) ==
    LET hits == {i \in 1..Len(slug_to_nome) : slug_to_nome[i].slug = slug}
    IN  IF hits = {} THEN None
        ELSE Str(slug_to_nome[CHOOSE i \in hits : \A j \in hits : j <= i].nome)

\* ------------------------------------------------------------ calcular_itens
\* A request mapping (a dict) is the sequence of its (slug, qtd) entries in
\* insertion order.  Quantities are ints, which int(qtd) leaves as they are.
\* Mutant of Descarta: only negative quantities are dropped.
Descarta_SoNegativos(qtd) == qtd < 0

\* The quantity test that drops an entry (line 94).
Descarta(qtd) == qtd <= 0

RECURSIVE CalcLoop(_, _)
CalcLoop(entries, itens) ==
    IF Len(entries) = 0 THEN itens
    ELSE
        LET slug == Head(entries).slug
            qtd  == Head(entries).qtd
            nome == SlugToNomeGet(slug)
            meta == CatalogMeta(nome.v)
        IN  IF Descarta(qtd) THEN CalcLoop(Tail(entries), itens)
            ELSE IF nome = None \/ nome = Str("") THEN CalcLoop(Tail(entries), itens)
            ELSE CalcLoop(Tail(entries),
                          Append(itens,
                                 [nome       |-> nome.v,
                                  qtd        |-> qtd,
                                  m3         |-> meta.m3,
                                  empilhavel |-> Get(meta, "empilhavel", FALSE),
                                  max_emp    |-> Get(meta, "max_emp", 1),
                                  altura     |-> Get(meta, "altura", 50)]))

\* Mutant of calcular_itens: the catalog is walked and the request looked
\* up, so the list comes out in catalog order.
RECURSIVE EmOrdemDoCatalogo(_, _)
EmOrdemDoCatalogo(itens, i) ==
    IF i > Len(catalogo) THEN <<>>
    ELSE SelectSeq(itens, LAMBDA it : it.nome = catalogo[i].nome) \o EmOrdemDoCatalogo(itens, i + 1)

calcular_itens_OrdemDoCatalogo(qtd_por_slug) == EmOrdemDoCatalogo(CalcLoop(qtd_por_slug, <<>>), 1)

calcular_itens(qtd_por_slug) == CalcLoop(qtd_por_slug, <<>>)

\* --------------------------------------------------------- volume_para_box
\* fl(d/100) - d/100 for the two-decimal literal d/100, in units of
\* 2^-59 / 100, for every height of the catalog and of BoxAlturas.
FloatErr(d) ==
    CASE d = 20  -> 640
      [] d = 25  -> 0
      [] d = 40  -> 1280
      [] d = 50  -> 0
      [] d = 55  -> 2560
      [] d = 60  -> -1280
      [] d = 70  -> -2560
      [] d = 75  -> 0
      [] d = 90  -> 1280
      [] d = 100 -> 0
      [] d = 120 -> -2560
      [] d = 180 -> 2560
      [] d = 200 -> 0

\* int(a // b) on the floats a/100 and b/100: the floor of the quotient of
\* the two doubles.  When b divides a as decimals, the doubles' rounding
\* errors decide between the exact quotient k and k - 1.
FloorDivFloat(a, b) ==
    LET k == a \div b
    IN  IF a % b # 0 THEN k
        ELSE IF FloatErr(a) >= k * FloatErr(b) THEN k
        ELSE k - 1

Min(a, b) == IF a <= b THEN a ELSE b

Max(a, b) == IF a >= b THEN a ELSE b

\* Mutant of Ceil: the quotient is truncated.
Ceil_Trunca(qtd, camadas) == qtd \div camadas

\* math.ceil(qtd / camadas_por_pilha)
Ceil(qtd, camadas) == -((-qtd) \div camadas)

\* camadas_por_pilha of a stackable item for a box height.
CamadasPorPilha(it, altura_box) == Min(FloorDivFloat(altura_box, it.altura), it.max_emp)

\* The loop body for a stackable item: what it adds to total, the stack
\* height, and the breakdown line (the numbers the f-string formats).
EmpilhavelStep(it, altura_box) ==
    LET camadas_por_pilha == CamadasPorPilha(it, altura_box)
        pilhas            == Ceil(it.qtd, camadas_por_pilha)
        v_item            == pilhas * it.m3
        altura_pilha      == Min(camadas_por_pilha, it.qtd) * it.altura
    IN  [v_item  |-> v_item,
         alt_uso |-> altura_pilha,
         detalhe |-> [qtd |-> it.qtd, nome |-> it.nome, empilha |-> TRUE, pilhas |-> pilhas,
                      v_item |-> v_item, camadas |-> camadas_por_pilha, altura |-> altura_pilha]]

\* The loop body for a non-stackable item.
NaoEmpilhavelStep(it) ==
    LET v_item == it.qtd * it.m3
    IN  [v_item  |-> v_item,
         alt_uso |-> it.altura,
         detalhe |-> [qtd |-> it.qtd, nome |-> it.nome, empilha |-> FALSE, v_item |-> v_item,
                      altura |-> it.altura]]

\* The infeasibility reason (the numbers its f-string formats).
Motivo(it, altura_box) == Str([nao_cabe |-> it.nome, alt |-> it.altura, altura_box |-> altura_box])

\* Mutant of NaoCabe: a single layer is rejected too.
NaoCabe_UmaCamada(camadas_por_pilha) == camadas_por_pilha < 2

\* The comparison that rejects a box height for a stackable item.
NaoCabe(camadas_por_pilha) == camadas_por_pilha < 1

\* Mutant of ComFolga: the slack is left out.
ComFolga_SemFolga(total, folga) == total * 100

\* total *= (1.0 + folga)
ComFolga(total, folga) == total * (100 + folga)

RECURSIVE VolLoop(_, _, _, _, _, _)
VolLoop(itens, altura_box, folga, total, max_alt_uso, detalhes) ==
    IF Len(itens) = 0 THEN <<Float(ComFolga(total, folga)), Float(max_alt_uso), List(detalhes)>>
    ELSE
        LET it == Head(itens)
        IN  IF it.empilhavel
            THEN IF NaoCabe(CamadasPorPilha(it, altura_box))
                 THEN <<None, None, Motivo(it, altura_box)>>
                 ELSE LET r == EmpilhavelStep(it, altura_box)
                      IN  VolLoop(Tail(itens), altura_box, folga, total + r.v_item,
                                  Max(max_alt_uso, r.alt_uso), Append(detalhes, r.detalhe))
            ELSE LET r == NaoEmpilhavelStep(it)
                 IN  VolLoop(Tail(itens), altura_box, folga, total + r.v_item,
                             Max(max_alt_uso, r.alt_uso), Append(detalhes, r.detalhe))

\* Returns <<volume_total, altura_maxima_usada, detalhes>> or <<None, None, motivo>>.
volume_para_box(itens, altura_box, folga) == VolLoop(itens, altura_box, folga, 0, 0, <<>>)

\* The default of the folga parameter.
FolgaPadrao == 15

\* --------------------------------------------------- escolher_box_por_altura
\* Mutant of Comporta: the capacity is not tested.
Comporta_SemTeste(box, vol) == TRUE

\* box["Metros Cubicos"] >= vol, the capacity in 1/100 m3 and vol in 1/10000.
Comporta(box, vol) == box.MetrosCubicos * 100 >= vol

\* Mutant of KeyLess: the key is the capacity alone.
KeyLess_SoCapacidade(t, u) == t[4].MetrosCubicos < u[4].MetrosCubicos

\* The sort key (t[3]["Metros Cubicos"], t[0]) compared as Python compares
\* tuples.
KeyLess(t, u) ==
    \/ t[4].MetrosCubicos < u[4].MetrosCubicos
    \/ t[4].MetrosCubicos = u[4].MetrosCubicos /\ t[1].v < u[1].v

\* Mutant of InsertCandidato: an element goes before the elements with an
\* equal key (an unstable sort).
RECURSIVE InsertCandidato_Instavel(_, _)
InsertCandidato_Instavel(s, t) ==
    IF Len(s) = 0 THEN <<t>>
    ELSE IF ~KeyLess(Head(s), t) THEN <<t>> \o s
    ELSE <<Head(s)>> \o InsertCandidato_Instavel(Tail(s), t)

\* list.sort is stable: an element goes after every element whose key is
\* not greater than its own.
RECURSIVE InsertCandidato(_, _)
InsertCandidato(s, t) ==
    IF Len(s) = 0 THEN <<t>>
    ELSE IF KeyLess(t, Head(s)) THEN <<t>> \o s
    ELSE <<Head(s)>> \o InsertCandidato(Tail(s), t)

RECURSIVE SortCandidatos(_)
SortCandidatos(s) ==
    IF Len(s) = 0 THEN <<>>
    ELSE InsertCandidato(SortCandidatos(SubSeq(s, 1, Len(s) - 1)), s[Len(s)])

\* Mutant of Candidatos: a box that is too low ends the search with nothing.
RECURSIVE Candidatos_Aborta(_, _, _)
Candidatos_Aborta(itens, boxes, candidatos) ==
    IF Len(boxes) = 0 THEN candidatos
    ELSE
        LET box == Head(boxes)
            res == volume_para_box(itens, box.Altura, FolgaPadrao)
        IN  IF res[1] = None THEN <<>>
            ELSE IF Comporta(box, res[1].v)
                 THEN Candidatos_Aborta(itens, Tail(boxes), Append(candidatos, <<res[1], res[2], res[3], box>>))
                 ELSE Candidatos_Aborta(itens, Tail(boxes), candidatos)

\* The loop over df_boxes.iterrows(): the candidatos list it builds.
RECURSIVE Candidatos(_, _, _)
Candidatos(itens, boxes, candidatos) ==
    IF Len(boxes) = 0 THEN candidatos
    ELSE
        LET box == Head(boxes)
            res == volume_para_box(itens, box.Altura, FolgaPadrao)
            vol == IF Len(res) = 3 THEN res[1] ELSE None
        IN  IF vol = None THEN Candidatos(itens, Tail(boxes), candidatos)
            ELSE IF Comporta(box, vol.v)
                 THEN Candidatos(itens, Tail(boxes), Append(candidatos, <<res[1], res[2], res[3], box>>))
                 ELSE Candidatos(itens, Tail(boxes), candidatos)

\* (the accent of "apos" is left out)
MotivoNenhumBox == Str("Nenhum box atende ao volume/altura apos simular empilhamento pela altura do box.")

\* candidatos[0] of the sorted list.
Melhor(ordenados) == ordenados[1]

\* Returns <<box_escolhido, volume_calc, altura_usada, detalhes>> or
\* <<None, None, None, motivo>>.
escolher_box_por_altura(itens, boxes) ==
    LET candidatos == Candidatos(itens, boxes, <<>>)
    IN  IF Len(candidatos) = 0 THEN <<None, None, None, MotivoNenhumBox>>
        ELSE LET melhor == Melhor(SortCandidatos(candidatos))
             IN  <<Series(melhor[4]), melhor[1], melhor[2], melhor[3]>>

\* -------------------------------------------------------------------- index
DigitSet == Chars(DigitChars)

\* The value of a string of decimal digits.
RECURSIVE DigitsValue(_, _)
DigitsValue(s, acc) ==
    IF Len(s) = 0 THEN acc
    ELSE DigitsValue(Tail(s), acc * 10 + (IndexIn(DigitChars, Head(s)) - 1))

\* int(raw) on a stripped string: an optional sign and decimal digits, or
\* ValueError.
int(raw) ==
    LET sinal   == IF Len(raw) > 0 /\ Head(raw) \in {"+", "-"} THEN Head(raw) ELSE ""
        digitos == IF sinal = "" THEN raw ELSE Tail(raw)
    IN  IF Len(digitos) = 0 \/ ~(Chars(digitos) \subseteq DigitSet)
        THEN [tipo |-> "ValueError"]
        ELSE [tipo |-> "int",
              v    |-> IF sinal = "-" THEN -DigitsValue(digitos, 0) ELSE DigitsValue(digitos, 0)]

\* request.form.get(field, default)
FormGet(form, field, default) == IF field \in DOMAIN form THEN form[field] ELSE default

\* One form field read into a quantity: lines 192-198.
LerQuantidade(form, item) ==
    LET field  == "qty_" \o item.slug
        got    == FormGet(form, field, "0")
        raw    == strip(IF got = "" THEN "0" ELSE got, Whitespace)
        parsed == int(raw)
        qtd    == IF parsed.tipo = "ValueError" THEN 0 ELSE parsed.v
    IN  Max(0, qtd)

\* d[k] = v on a dict kept as its entries in insertion order.
DictSet(d, k, v) ==
    IF \E i \in 1..Len(d) : d[i].slug = k
    THEN [i \in 1..Len(d) |-> IF d[i].slug = k THEN [slug |-> k, qtd |-> v] ELSE d[i]]
    ELSE Append(d, [slug |-> k, qtd |-> v])

\* The loop over itens_ui that fills qtd_por_slug.
RECURSIVE LerFormulario(_, _, _)
LerFormulario(form, itens, d) ==
    IF Len(itens) = 0 THEN d
    ELSE LerFormulario(form, Tail(itens), DictSet(d, Head(itens).slug, LerQuantidade(form, Head(itens))))

\* detalhes_html, as the value it is built from.
DetalhesHtml(itens_sel_, detalhes) ==
    IF Len(itens_sel_) > 0 /\ isinstance(detalhes, "list") THEN [itens |-> detalhes.v]
    ELSE IF isinstance(detalhes, "str") THEN [texto |-> detalhes.v]
    ELSE [texto |-> "-"]

\* resultado_html, as the values it formats.
ResultadoHtml(box, vol_calc, alt_usada) ==
    IF box # None
    THEN [volume |-> vol_calc.v, altura |-> alt_usada.v, box |-> box.v]
    ELSE [texto |-> "Nenhum box disponivel atende ao volume/altura com empilhamento respeitando a altura do box."]

\* ------------------------------------------------------------------- state
VARIABLES
    pc,            \* "aguardando": no request in progress; "respondido": index has returned
    df_boxes,      \* the rows of Boxes.xlsx after the loading filters, in row order
    form,          \* request.form of the request just handled
    qtd_por_slug,  \* index's local
    itens_sel,     \* index's local
    chamadas,      \* what volume_para_box returned for each row of df_boxes, in order
    escolha,       \* what escolher_box_por_altura returned
    resposta,      \* the values handed to render_template
    args           \* altura_box and folga of a direct call of volume_para_box

vars == <<pc, df_boxes, form, qtd_por_slug, itens_sel, chamadas, escolha, resposta, args>>

\* Heights and capacities a row of Boxes.xlsx may carry.  A row keeps the
\* columns the selection reads (Altura, Metros Cubicos) and its label (Box);
\* Largura and Comprimento are only printed.
BoxAlturas == {50, 200}

BoxCapacidades == {100, 400}

BoxLists ==
    UNION {[1..n -> [Box : {0}, Altura : BoxAlturas, MetrosCubicos : BoxCapacidades]] : n \in 0..MaxBoxes}

\* Row i is labelled i.
Rotular(rows) == [i \in 1..Len(rows) |-> [rows[i] EXCEPT !.Box = i]]

\* Field values a browser may send.
RECURSIVE IntToStr(_)
IntToStr(n) == IF n < 10 THEN CharAt(DigitChars, n + 1) ELSE IntToStr(n \div 10) \o CharAt(DigitChars, (n % 10) + 1)

\* Well-formed quantities, and values the handler reads as zero or repairs.
QtdValues == {IntToStr(n) : n \in 1..MaxQtd}

OddValues == {"", "abc", "-2", " 2 "}

FieldNames == {"qty_" \o itens_ui[i].slug : i \in 1..Len(itens_ui)}

RECURSIVE SubsetsUpTo(_, _)
SubsetsUpTo(S, k) ==
    IF k = 0 THEN {{}}
    ELSE LET P == SubsetsUpTo(S, k - 1) IN P \cup {p \cup {x} : p \in P, x \in S}

\* Up to MaxSel fields with a well-formed quantity, or one field with any value.
Forms ==
    (UNION {[F -> QtdValues] : F \in SubsetsUpTo(FieldNames, MaxSel)})
    \cup (UNION {[F -> OddValues] : F \in SubsetsUpTo(FieldNames, 1)})

EmptyForm == [f \in {} |-> ""]

Init ==
    /\ pc = "aguardando"
    /\ \E rows \in BoxLists : df_boxes = Rotular(rows)
    /\ form = EmptyForm
    /\ qtd_por_slug = <<>>
    /\ itens_sel = <<>>
    /\ chamadas = <<>>
    /\ escolha = <<>>
    /\ resposta = [resultado |-> None, detalhes |-> None]
    /\ args = <<>>

\* GET /: the template is rendered with no result.
IndexGet ==
    /\ pc = "aguardando"
    /\ pc' = "respondido"
    /\ resposta' = [resultado |-> None, detalhes |-> None]
    /\ UNCHANGED <<df_boxes, form, qtd_por_slug, itens_sel, chamadas, escolha, args>>

\* POST /: the whole handler.
IndexPost ==
    /\ pc = "aguardando"
    /\ \E f \in Forms :
        \E q \in {LerFormulario(f, itens_ui, <<>>)} :
        \E sel \in {calcular_itens(q)} :
        \E r \in {escolher_box_por_altura(sel, df_boxes)} :
            /\ form' = f
            /\ qtd_por_slug' = q
            /\ itens_sel' = sel
            /\ chamadas' = [i \in 1..Len(df_boxes) |-> volume_para_box(sel, df_boxes[i].Altura, FolgaPadrao)]
            /\ escolha' = r
            /\ resposta' = [resultado |-> ResultadoHtml(r[1], r[2], r[3]),
                            detalhes  |-> DetalhesHtml(sel, r[4])]
    /\ pc' = "respondido"
    /\ UNCHANGED <<df_boxes, args>>

\* The response is sent and the request's locals are gone.
Proxima ==
    /\ pc = "respondido"
    /\ pc' = "aguardando"
    /\ form' = EmptyForm
    /\ qtd_por_slug' = <<>>
    /\ itens_sel' = <<>>
    /\ chamadas' = <<>>
    /\ escolha' = <<>>
    /\ resposta' = [resultado |-> None, detalhes |-> None]
    /\ UNCHANGED <<df_boxes, args>>

Next == IndexGet \/ IndexPost \/ Proxima

Spec == Init /\ [][Next]_vars

\* -------------------------------------------- the two functions on their own
\* calcular_itens and volume_para_box called directly: each is a function of
\* its arguments.

\* Keys of a request mapping: every catalog slug and two that match nothing.
RequestSlugs == {slug_to_nome[i].slug : i \in 1..Len(slug_to_nome)} \cup {"piano", "Sofa"}

\* Quantities of a request mapping: negative, zero, the least and the largest.
RequestQtds == {-1, 0, 1, MaxQtd}

RequestEntries == [slug : RequestSlugs, qtd : RequestQtds]

\* The keys of a mapping are distinct.
ChavesDistintas(r) == \A i, j \in 1..Len(r) : i # j => r[i].slug # r[j].slug

\* The mapping index builds for the entries of itens_ui whose slug is in F,
\* with the quantities q.
Pedido(F, q) ==
    LET escolhidos == SelectSeq(itens_ui, LAMBDA it : it.slug \in F)
    IN  [i \in 1..Len(escolhidos) |-> [slug |-> escolhidos[i].slug, qtd |-> q[escolhidos[i].slug]]]

\* Up to MaxSel catalog slugs.
Selecoes == SubsetsUpTo({itens_ui[i].slug : i \in 1..Len(itens_ui)}, MaxSel)

VolAlturas == {20, 50, 120, 200}

Folgas == {0, 15, 30}

InitFun ==
    /\ pc = "aguardando"
    /\ df_boxes = <<>>
    /\ form = EmptyForm
    /\ qtd_por_slug = <<>>
    /\ itens_sel = <<>>
    /\ chamadas = <<>>
    /\ escolha = <<>>
    /\ resposta = [resultado |-> None, detalhes |-> None]
    /\ args = <<>>

\* calcular_itens on a mapping of up to MaxSel entries, in any insertion
\* order, with known and unknown keys and quantities from RequestQtds.
CallCalcularItens ==
    /\ pc = "aguardando"
    /\ \E n \in 0..MaxSel :
        \E r \in [1..n -> RequestEntries] :
            /\ ChavesDistintas(r)
            /\ qtd_por_slug' = r
            /\ itens_sel' = calcular_itens(r)
    /\ pc' = "calculado"
    /\ UNCHANGED <<df_boxes, form, chamadas, escolha, resposta, args>>

\* volume_para_box on a normalized item list, a box height and a slack.
CallVolumeParaBox ==
    /\ pc = "aguardando"
    /\ \E F \in Selecoes :
        \E q \in [F -> 1..MaxQtd], h \in VolAlturas, f \in Folgas :
        \E itens \in {calcular_itens(Pedido(F, q))} :
            /\ qtd_por_slug' = Pedido(F, q)
            /\ itens_sel' = itens
            /\ args' = [altura_box |-> h, folga |-> f]
            /\ chamadas' = <<volume_para_box(itens, h, f)>>
    /\ pc' = "estimado"
    /\ UNCHANGED <<df_boxes, form, escolha, resposta>>

\* The caller drops the results.
Retorna ==
    /\ pc \in {"calculado", "estimado"}
    /\ pc' = "aguardando"
    /\ qtd_por_slug' = <<>>
    /\ itens_sel' = <<>>
    /\ chamadas' = <<>>
    /\ args' = <<>>
    /\ UNCHANGED <<df_boxes, form, escolha, resposta>>

NextCalc == CallCalcularItens \/ Retorna

SpecCalc == InitFun /\ [][NextCalc]_vars

NextVol == CallVolumeParaBox \/ Retorna

SpecVol == InitFun /\ [][NextVol]_vars

\* ================================================================== claims
\* index has handled a POST.
Posted == pc = "respondido" /\ Len(escolha) = 4

\* escolher_box_por_altura returned a box.
Escolhido == Posted /\ escolha[1] # None

BoxEscolhido == escolha[1].v

\* Row i of df_boxes is eligible: the estimator succeeded at its height and
\* its capacity is at least the estimated total.
Elegivel(i) ==
    /\ chamadas[i][1] # None
    /\ df_boxes[i].MetrosCubicos * 100 >= chamadas[i][1].v

Falha == <<None, None, None, MotivoNenhumBox>>

\* C1: a chosen box is a row of df_boxes whose capacity is at least the total
\* volume volume_para_box computes for the item list at that box's height,
\* and the volume returned with it is exactly that total.
C1_CapacidadeSuficiente ==
    Escolhido =>
        LET b == BoxEscolhido
        IN  /\ b.Box \in 1..Len(df_boxes)
            /\ df_boxes[b.Box] = b
            /\ chamadas[b.Box][1] # None
            /\ b.MetrosCubicos * 100 >= chamadas[b.Box][1].v
            /\ escolha[2] = chamadas[b.Box][1]

\* A box is chosen for a non-empty item list while another row, high enough,
\* is rejected for its capacity.
C1_Witness ==
    /\ Escolhido
    /\ Len(itens_sel) > 0
    /\ \E j \in 1..Len(df_boxes) : chamadas[j][1] # None /\ ~Elegivel(j)

\* C2: when some row is eligible, the chosen box is eligible, no eligible
\* row has a smaller capacity, and no eligible row of the same capacity has
\* a smaller computed total volume.
C2_MenorCapacidadeDepoisMenorVolume ==
    (Posted /\ \E i \in 1..Len(df_boxes) : Elegivel(i)) =>
        /\ escolha[1] # None
        /\ BoxEscolhido.Box \in 1..Len(df_boxes)
        /\ Elegivel(BoxEscolhido.Box)
        /\ \A j \in 1..Len(df_boxes) :
              Elegivel(j) =>
                  /\ BoxEscolhido.MetrosCubicos <= df_boxes[j].MetrosCubicos
                  /\ (df_boxes[j].MetrosCubicos = BoxEscolhido.MetrosCubicos
                        => escolha[2].v <= chamadas[j][1].v)

\* Two eligible rows of the same capacity differ in computed volume, and the
\* chosen one is the later row.
C2_Witness ==
    /\ Escolhido
    /\ \E j \in 1..Len(df_boxes) :
          /\ j < BoxEscolhido.Box
          /\ Elegivel(j)
          /\ df_boxes[j].MetrosCubicos = BoxEscolhido.MetrosCubicos
          /\ chamadas[j][1].v > escolha[2].v

\* C3: the failure result (no box, no volume, no height, the fixed reason) is
\* returned exactly when no row is eligible; a row whose height the
\* estimator rejects does not make the call fail while another is eligible.
C3_FalhaSseNenhumElegivel ==
    Posted =>
        /\ (escolha = Falha) <=> ~(\E i \in 1..Len(df_boxes) : Elegivel(i))
        /\ escolha[1] = None => escolha = Falha

\* A box is chosen although the estimator rejected the height of another row.
C3_Witness ==
    /\ Escolhido
    /\ \E j \in 1..Len(df_boxes) : chamadas[j][1] = None

\* C8: among eligible rows that tie with the chosen box on capacity and on
\* computed total volume, the chosen box is the first in row order.
C8_EmpateNaOrdemDasLinhas ==
    Escolhido =>
        \A j \in 1..Len(df_boxes) :
            (/\ Elegivel(j)
             /\ df_boxes[j].MetrosCubicos = BoxEscolhido.MetrosCubicos
             /\ chamadas[j][1].v = escolha[2].v)
            => BoxEscolhido.Box <= j

\* Two eligible rows tie on capacity and volume for a non-empty item list.
C8_Witness ==
    /\ Escolhido
    /\ Len(itens_sel) > 0
    /\ \E j \in 1..Len(df_boxes) :
          /\ j > BoxEscolhido.Box
          /\ Elegivel(j)
          /\ df_boxes[j].MetrosCubicos = BoxEscolhido.MetrosCubicos
          /\ chamadas[j][1].v = escolha[2].v

\* C10: the peak height returned with a chosen box does not exceed the height
\* of that box.
C10_AlturaUsadaCabeNoBox ==
    Escolhido => escolha[3].v <= BoxEscolhido.Altura

\* The slug of a catalog key, from slug_to_nome.
SlugDe(nome) == slug_to_nome[CHOOSE i \in 1..Len(slug_to_nome) : slug_to_nome[i].nome = nome].slug

\* The position of a key in a request mapping.
PosNoPedido(d, slug) == CHOOSE i \in 1..Len(d) : d[i].slug = slug

\* C7 as stated: of two surviving items, the one that comes first in the
\* catalog comes first in the list calcular_itens returns.
C7_OrdemDoCatalogo ==
    Posted =>
        \A i, j \in 1..Len(itens_sel) :
            i < j => CatalogPos(itens_sel[i].nome) < CatalogPos(itens_sel[j].nome)

\* C7 amended: the list follows the insertion order of the request mapping,
\* which index fills in the order of itens_ui, ascending by name.
C7_OrdemDoPedido ==
    Posted =>
        \A i, j \in 1..Len(itens_sel) :
            i < j =>
                /\ PosNoPedido(qtd_por_slug, SlugDe(itens_sel[i].nome))
                     < PosNoPedido(qtd_por_slug, SlugDe(itens_sel[j].nome))
                /\ StrLess(itens_sel[i].nome, itens_sel[j].nome)

\* Two items survive and the first of them comes later in the catalog.
C7_Witness ==
    /\ Posted
    /\ Len(itens_sel) = 2
    /\ CatalogPos(itens_sel[1].nome) > CatalogPos(itens_sel[2].nome)

\* ------------------------------------------------- claims on direct calls
Calculado == pc = "calculado"

Estimado == pc = "estimado"

\* The key is the slug of some catalog entry.
SlugConhecido(slug) == \E i \in 1..Len(slug_to_nome) : slug_to_nome[i].slug = slug

\* The entries of the request that survive: quantity above zero, known key.
Sobreviventes == {i \in 1..Len(qtd_por_slug) : qtd_por_slug[i].qtd > 0 /\ SlugConhecido(qtd_por_slug[i].slug)}

\* C6: every element of the list calcular_itens returns has a quantity above
\* zero and names a catalog entry whose unit volume, stackable flag, stack
\* limit (1 when the entry states none) and unit height it carries; the
\* list holds exactly the entries with a quantity above zero and a known key.
C6_ItensNormalizados ==
    Calculado =>
        /\ \A k \in 1..Len(itens_sel) :
              LET it == itens_sel[k]
              IN  /\ it.qtd > 0
                  /\ \E i \in 1..Len(catalogo) :
                        LET e == catalogo[i]
                        IN  /\ e.nome = it.nome
                            /\ it.m3 = e.meta.m3
                            /\ it.empilhavel = e.meta.empilhavel
                            /\ it.altura = e.meta.altura
                            /\ it.max_emp = (IF "max_emp" \in DOMAIN e.meta THEN e.meta.max_emp ELSE 1)
        /\ Len(itens_sel) = Cardinality(Sobreviventes)
        /\ \A i \in Sobreviventes :
              \E k \in 1..Len(itens_sel) :
                  /\ SlugDe(itens_sel[k].nome) = qtd_por_slug[i].slug
                  /\ itens_sel[k].qtd = qtd_por_slug[i].qtd

\* A request with an unknown key of quantity above zero and a known key, of
\* which one item survives.
C6_Witness ==
    /\ Calculado
    /\ Len(qtd_por_slug) = 2
    /\ Len(itens_sel) = 1
    /\ \E i \in 1..2 : qtd_por_slug[i].slug = "piano" /\ qtd_por_slug[i].qtd > 0

\* The stackable item it does not fit under height h: fewer than one layer,
\* with the quotient of the two decimal heights floored exactly.
SemCamada(it, h) == it.empilhavel /\ Min(h \div it.altura, it.max_emp) < 1

C5_PilhasSaoOTeto ==
    (Estimado /\ chamadas[1][1] # None) =>
        \A k \in 1..Len(itens_sel) :
            itens_sel[k].empilhavel =>
                LET it == itens_sel[k]
                    d  == chamadas[1][3].v[k]
                    L  == Min(FloorDivFloat(args.altura_box, it.altura), it.max_emp)
                IN  /\ L >= 1
                    /\ d.camadas = L
                    /\ d.pilhas * L >= it.qtd
                    /\ (d.pilhas - 1) * L < it.qtd
                    /\ d.v_item = d.pilhas * it.m3

\* A stackable item whose quantity is no multiple of the layers per stack
\* and needs more than one stack but fewer stacks than units.
C5_Witness ==
    /\ Estimado
    /\ chamadas[1][1] # None
    /\ \E k \in 1..Len(itens_sel) :
          /\ itens_sel[k].empilhavel
          /\ chamadas[1][3].v[k].camadas > 1
          /\ itens_sel[k].qtd % chamadas[1][3].v[k].camadas # 0
          /\ chamadas[1][3].v[k].pilhas > 1
          /\ chamadas[1][3].v[k].pilhas < itens_sel[k].qtd

\* The contribution of one item, stated without the loop: quantity times
\* unit volume, or for a stackable item the least number of stacks that
\* holds the quantity times unit volume.
Contribuicao(it, h) ==
    IF it.empilhavel
    THEN LET L == Min(FloorDivFloat(h, it.altura), it.max_emp)
         IN  (CHOOSE n \in 1..it.qtd : n * L >= it.qtd /\ (n - 1) * L < it.qtd) * it.m3
    ELSE it.qtd * it.m3

RECURSIVE SomaContribuicoes(_, _)
SomaContribuicoes(itens, h) ==
    IF Len(itens) = 0 THEN 0 ELSE Contribuicao(Head(itens), h) + SomaContribuicoes(Tail(itens), h)

\* C9: a successful volume_para_box returns the sum of the items'
\* contributions times (1 + slack); with no items the volume and the peak
\* height are 0.
C9_SomaComFolga ==
    (Estimado /\ chamadas[1][1] # None) =>
        /\ chamadas[1][1].v = SomaContribuicoes(itens_sel, args.altura_box) * (100 + args.folga)
        /\ Len(itens_sel) = 0 => (chamadas[1][1].v = 0 /\ chamadas[1][2].v = 0)

\* A stackable and a non-stackable item under a slack other than the default.
C9_Witness ==
    /\ Estimado
    /\ chamadas[1][1] # None
    /\ args.folga = 30
    /\ Len(itens_sel) = 2
    /\ itens_sel[1].empilhavel
    /\ ~itens_sel[2].empilhavel
    /\ chamadas[1][3].v[1].pilhas < itens_sel[1].qtd

====
